---- MODULE Spec2Model ----
(***************************************************************************)
(* Model of the ecology multi-agent system: the task router (LangGraph     *)
(* supervisor graph behind the run-agent endpoint), the four engines       *)
(* (collector, analyzer, forecaster, alert agent), the store helpers of    *)
(* data_tools.py and the metric functions.                                 *)
(*                                                                         *)
(* Numbers.  Concentrations are kept in tenths of a microgram per cubic    *)
(* metre (150.0 is 1500).  A nullable column is a sequence of length at    *)
(* most one: << >> is None and <<v>> is the value v.  A float computed by  *)
(* a regression is an exact fraction <<num, den>> with den > 0, in tenths. *)
(* Time is counted in whole hours.                                         *)
(***************************************************************************)
EXTENDS Integers, Sequences, FiniteSets, TLC

VARIABLES
    now,            \* datetime.utcnow(), in hours
    source,         \* what the readings source holds for each location
    measurements,   \* table measurements, in insertion (id) order
    forecasts,      \* table forecasts
    alerts,         \* table alerts
    analyses,       \* table analyses
    pc,             \* where the current task invocation stands
    state,          \* the AgentState of the running graph
    entry,          \* "api" when run_agent invoked the graph, "graph" otherwise
    response,       \* what the last invocation returned to its caller
    visited,        \* the graph nodes the current invocation has run
    requests,       \* number of invocations started so far
    ticks,          \* number of times the clock has been advanced
    sessions        \* the open save_measurements sessions (concurrent collectors)

vars == <<now, source, measurements, forecasts, alerts, analyses, pc, state,
          entry, response, visited, requests, ticks, sessions>>

tables == <<measurements, forecasts, alerts, analyses>>

-----------------------------------------------------------------------------
(* Bounds of the model *)

MaxRequests == 2

MaxTicks == 1

-----------------------------------------------------------------------------
(* Small helpers *)

None == << >>

Some(v) == <<v>>

IsNone(o) == o = << >>

Val(o) == o[1]

\* Python truthiness of an optional float: None and 0.0 are both falsy
Truthy(o) == o # << >> /\ o[1] # 0

Range(s) == {s[i] : i \in DOMAIN s}

Min(a, b) == IF a <= b THEN a ELSE b

Abs(a) == IF a < 0 THEN 0 - a ELSE a

\* int(): truncation toward zero of the fraction n / d, d > 0
Trunc(n, d) == IF n >= 0 THEN n \div d ELSE 0 - ((0 - n) \div d)

\* Sums and folds halve their range, to keep the evaluation shallow
RECURSIVE SumRange(_, _, _)
SumRange(s, lo, hi) ==
    IF lo > hi THEN 0
    ELSE IF lo = hi THEN s[lo]
    ELSE LET mid == (lo + hi) \div 2
         IN  SumRange(s, lo, mid) + SumRange(s, mid + 1, hi)

SumSeq(s) == SumRange(s, 1, Len(s))

\* sum of x * s[x+1] for the 0-based index x, as in a fit against range(len(s))
SumIdx(s) == SumSeq([i \in DOMAIN s |-> (i - 1) * s[i]])

RECURSIVE Gcd(_, _)
Gcd(a, b) == IF b = 0 THEN a ELSE Gcd(b, a % b)

RECURSIVE GcdRange(_, _, _)
GcdRange(s, lo, hi) ==
    IF lo > hi THEN 0
    ELSE IF lo = hi THEN Abs(s[lo])
    ELSE LET mid == (lo + hi) \div 2
         IN  Gcd(GcdRange(s, lo, mid), GcdRange(s, mid + 1, hi))

GcdSeq(s) == GcdRange(s, 1, Len(s))

MaxSeq(s) == CHOOSE v \in Range(s) : \A w \in Range(s) : v >= w

MinSeq(s) == CHOOSE v \in Range(s) : \A w \in Range(s) : v <= w

\* floor(r * q / d) for d > 0 without forming the product r * q
MulDiv(r, q, d) == r * (q \div d) + ((r * (q % d)) \div d)

-----------------------------------------------------------------------------
(* config.py: Settings *)

Locations == <<"Station-A", "Station-B">>

LocationNames == Range(Locations)

AqiModerate == 100

\* The "unhealthy_sensitive" threshold taken for the "unhealthy" one
AqiUnhealthySensitive == 150

AqiUnhealthy == 200

-----------------------------------------------------------------------------
(* data_tools.py: metric functions *)

\* A wider band: its width measured from the top of the band below
AqiBandWide(lo, span, width, from, n, d) ==
    lo + (MulDiv(span, n - from * d, d) \div (width + 1))

\* One band of calculate_aqi: int(lo + (span / width) * (pm - from)), where
\* pm = n / d tenths; width and from are in tenths too.  Within its band the
\* value is positive, so int() is the floor.
AqiBand(lo, span, width, from, n, d) ==
    lo + (MulDiv(span, n - from * d, d) \div width)

\* calculate_aqi(pm25) for pm25 = n / d tenths of a microgram, d > 0.  The
\* first band has no offset, so there int() truncates a negative value
\* toward zero.
calculate_aqi(pm) ==
    LET n == pm[1]
        d == pm[2]
    IN  IF n <= 120 * d THEN
            IF n >= 0 THEN MulDiv(50, n, d) \div 120
            ELSE 0 - (MulDiv(50, 0 - n, d) \div 120)
        ELSE IF n <= 354 * d THEN AqiBand(50, 50, 233, 121, n, d)
        ELSE IF n <= 554 * d THEN AqiBand(100, 50, 199, 355, n, d)
        ELSE IF n <= 1504 * d THEN AqiBand(150, 50, 949, 555, n, d)
        ELSE IF n <= 2504 * d THEN AqiBand(200, 100, 999, 1505, n, d)
        ELSE AqiBand(300, 200, 2499, 2505, n, d)

\* Twice the centred cross sum of a series against its indices 0..n-1:
\* sum over x of (2x - (n-1)) * y[x].  The least-squares slope of the fit is
\* 6 * Cross / (n * (n*n - 1)).
Cross(y) == 2 * SumIdx(y) - (Len(y) - 1) * SumSeq(y)

SlopeDen(y) == Len(y) * (Len(y) * Len(y) - 1)

\* analyze_trend(values): the slope thresholds 0.5 and -0.5 are 5 tenths
analyze_trend(values) ==
    IF Len(values) < 2 THEN "insufficient_data"
    ELSE IF 6 * Cross(values) > 5 * SlopeDen(values) THEN "increasing"
    ELSE IF 6 * Cross(values) < 0 - 5 * SlopeDen(values) THEN "decreasing"
    ELSE "stable"

\* Binary floating point, as far as detect_anomalies depends on it.  A double
\* carries 53 significant bits.  A wide natural number is a pair <<hi, lo>>
\* standing for hi * Limb + lo with 0 <= lo < Limb.
Limb == 2^26

WideNorm(hi, lo) == <<hi + (lo \div Limb), lo % Limb>>

WideAdd(x, y) == WideNorm(x[1] + y[1], x[2] + y[2])

\* The double nearest to t / 10 for a natural t >= 1, as the 53-bit
\* significand M with 2^52 <= M < 2^53 (the exponent is not needed: all the
\* numbers below are multiples of the same power of two).  t * 2^s is scaled
\* into [10 * 2^52, 20 * 2^52) and divided by 10; the remainder is never one
\* half.
FloatOfTenths(t) ==
    LET lim == (20 * Limb - 1) \div t
        s == CHOOSE k \in 0..30 : 2^k <= lim /\ (k = 30 \/ 2^(k + 1) > lim)
        top == t * 2^s
        rest == (top % 10) * Limb
        up == IF rest % 10 > 5 THEN 1 ELSE 0
    IN  WideNorm(top \div 10, (rest \div 10) + up)

\* x rounded to 53 significant bits, to nearest, ties to even
RoundDouble(x) ==
    LET j == CHOOSE k \in 0..4 :
                 /\ k = 4 \/ x[1] < 2^(27 + k)
                 /\ k = 0 \/ x[1] >= 2^(26 + k)
        q == 2^j
        rem == x[2] % q
        down == x[2] - rem
        odd == (down \div q) % 2 = 1
        up == 2 * rem > q \/ (2 * rem = q /\ odd)
    IN  WideNorm(x[1], IF up THEN down + q ELSE down)

\* values_array.sum() for k copies of the double M, added one after the other
RECURSIVE SumOfCopies(_, _)
SumOfCopies(M, k) ==
    IF k = 1 THEN M ELSE RoundDouble(WideAdd(SumOfCopies(M, k - 1), M))

\* Whether np.mean of n copies of t / 10 is that value again: the sum divided
\* by n rounds to M exactly when it is off by less than half a unit, or by
\* half a unit with M even.  The sum of up to 8 numbers is a plain loop; for
\* a longer series the mean is taken as exact.
MeanIsExact(t, n) ==
    IF t = 0 \/ n > 8 THEN TRUE
    ELSE LET M == FloatOfTenths(Abs(t))
             S == SumOfCopies(M, n)
             D == (S[1] - n * M[1]) * Limb + (S[2] - n * M[2])
         IN  2 * Abs(D) < n \/ (2 * Abs(D) = n /\ M[2] % 2 = 0)

\* detect_anomalies(values, threshold): the 0-based indices i with
\* |v[i] - mean| / std > threshold, std the population standard deviation;
\* threshold is in tenths.  With dev[i] = n * v[i] - sum the test is
\* n * dev[i]^2 > threshold^2 * sum(dev^2); the deviations are divided by
\* their common factor first.  A series of one repeated value has std = 0
\* only if its mean is computed exactly; if not, every deviation is the same
\* rounding error d, std is |d| and every z-score is 1.0.  A z-score equal
\* to the threshold is compared as in exact arithmetic.
detect_anomalies(values, threshold) ==
    IF Len(values) < 3 THEN << >>
    ELSE
        LET n == Len(values)
            s == SumSeq(values)
            raw == [i \in 1..n |-> n * values[i] - s]
            g == GcdSeq(raw)
            idx == [i \in 1..n |-> i - 1]
        IN  IF g = 0 THEN
                IF MeanIsExact(values[1], n) THEN << >>
                ELSE IF 10 > threshold THEN idx
                ELSE << >>
            ELSE
                LET dev == [i \in 1..n |-> raw[i] \div g]
                    ss == SumSeq([i \in 1..n |-> dev[i] * dev[i]])
                    c == Gcd(threshold * threshold, 100)
                    num == (threshold * threshold) \div c
                    den == 100 \div c
                    hit == [i \in 1..n |-> n * dev[i] * dev[i] * den > num * ss]
                IN  SelectSeq(idx, LAMBDA k : hit[k + 1])

-----------------------------------------------------------------------------
(* data_tools.py: the store *)

\* A Measurement row.  Its id is its position in the table; the columns no
\* engine branches on (coordinates, the other pollutants, weather) are left out.
MeasurementRow(item) ==
    [location_name |-> item.location_name,
     timestamp |-> item.timestamp,
     pm25 |-> item.pm25]

SameKey(m, item) ==
    m.location_name = item.location_name /\ m.timestamp = item.timestamp

\* save_measurements without its check for an existing row
SaveItemUnchecked(committed, pending, saved_count, item) ==
    <<Append(pending, MeasurementRow(item)), saved_count + 1>>

\* The body of the loop of save_measurements for one item, in a session that
\* sees the committed rows and its own pending rows: <<pending, saved_count>>
SaveItem(committed, pending, saved_count, item) ==
    IF \E i \in DOMAIN committed : SameKey(committed[i], item)
        THEN <<pending, saved_count>>
    ELSE IF \E i \in DOMAIN pending : SameKey(pending[i], item)
        THEN <<pending, saved_count>>
    ELSE <<Append(pending, MeasurementRow(item)), saved_count + 1>>

\* The loop of save_measurements over data[lo..hi], in order.  The range is
\* halved: first half, then second half from where the first ended; the test
\* on the count makes the first half's result known before the second starts.
RECURSIVE SaveLoop(_, _, _, _, _, _)
SaveLoop(committed, pending, saved_count, data, lo, hi) ==
    IF lo > hi THEN <<pending, saved_count>>
    ELSE IF lo = hi THEN SaveItem(committed, pending, saved_count, data[lo])
    ELSE LET mid == (lo + hi) \div 2
             first == SaveLoop(committed, pending, saved_count, data, lo, mid)
         IN  IF first[2] >= saved_count
                 THEN SaveLoop(committed, first[1], first[2], data, mid + 1, hi)
             ELSE first

\* A save that keeps only the rows of the batch
save_replacing(committed, data) ==
    LET r == SaveLoop(committed, << >>, 0, data, 1, Len(data))
    IN  <<r[1], r[2]>>

\* save_measurements(session, data) run without interruption:
\* <<table after the commit, saved_count>>
save_measurements(committed, data) ==
    LET r == SaveLoop(committed, << >>, 0, data, 1, Len(data))
    IN  <<committed \o r[1], r[2]>>

\* The rows with a timestamp in lo..hi, latest timestamp first; rows of one
\* timestamp stay in id order
RECURSIVE OrderDesc(_, _, _)
OrderDesc(rows, lo, hi) ==
    IF lo = hi THEN SelectSeq(rows, LAMBDA m : m.timestamp = lo)
    ELSE LET mid == (lo + hi) \div 2
         IN  OrderDesc(rows, mid + 1, hi) \o OrderDesc(rows, lo, mid)

\* ORDER BY timestamp DESC
OrderByTimestampDesc(rows) ==
    IF rows = << >> THEN << >>
    ELSE LET ts == [i \in DOMAIN rows |-> rows[i].timestamp]
         IN  OrderDesc(rows, MinSeq(ts), MaxSeq(ts))

\* A read that ignores the window
get_all_measurements(rows, t, hours) == OrderByTimestampDesc(rows)

\* get_recent_measurements(session, hours) at time t
get_recent_measurements(rows, t, hours) ==
    OrderByTimestampDesc(SelectSeq(rows, LAMBDA m : m.timestamp >= t - hours))

-----------------------------------------------------------------------------
(* The readings source (Open-Meteo), as fetch_air_quality_data and          *)
(* fetch_weather_data see it.  What it returns for a location is an hourly  *)
(* series ending at the current hour: len points base, base + step, ...     *)

SeriesKinds ==
    {[name |-> "rising", base |-> 100, step |-> 20, len |-> 20],
     [name |-> "falling", base |-> 4800, step |-> -200, len |-> 20],
     [name |-> "single", base |-> 1500, step |-> 0, len |-> 1]}

\* The JSON of a fetch: {} when the request failed, else the hourly arrays;
\* a source of the kind "no_pm25" answers without the "pm2_5" array
FetchHourly(kind, t, ok) ==
    IF ~ok THEN [hourly |-> FALSE, time |-> << >>, pm2_5 |-> << >>]
    ELSE IF kind.name = "no_pm25"
        THEN [hourly |-> TRUE, time |-> [i \in 1..kind.len |-> t - kind.len + i]]
    ELSE [hourly |-> TRUE,
          time |-> [i \in 1..kind.len |-> t - kind.len + i],
          pm2_5 |-> [i \in 1..kind.len |-> Some(kind.base + kind.step * (i - 1))]]

-----------------------------------------------------------------------------
(* agents/data_collector.py *)

KeepHours == 24

\* list[i] for a negative index i
PyIndex(list, i) == list[Len(list) + i + 1]

\* hourly_air.get("pm2_5", [None])
HourlyGet(resp) == IF "pm2_5" \in DOMAIN resp THEN resp.pm2_5 ELSE <<None>>

\* Whether list[i] exists for a negative index i; if not, the subscript
\* raises IndexError
InRangeIndex(list, i) == Len(list) + i + 1 >= 1

\* The loop over range(-num_points, 0) for one location: the k-th pass has
\* i = -num_points + k - 1.  A pass whose subscript raises is caught by the
\* try inside the loop and appends nothing.
CollectHours(name, resp, num_points) ==
    LET series == HourlyGet(resp)
        passes == [k \in 1..num_points |-> k - 1 - num_points]
        done == SelectSeq(passes, LAMBDA i : InRangeIndex(series, i))
    IN  [k \in DOMAIN done |->
            [location_name |-> name,
             timestamp |-> PyIndex(resp.time, done[k]),
             pm25 |-> PyIndex(series, done[k])]]

CollectLocation(name, resp) ==
    IF resp.hourly
        THEN CollectHours(name, resp, Min(Len(resp.time), KeepHours))
    ELSE << >>

\* A collection that gives up everything when one location's fetch failed
RECURSIVE CollectAllOrNothing(_, _, _, _)
CollectAllOrNothing(locs, src, t, oks) ==
    IF locs = << >> \/ \E i \in DOMAIN locs : ~oks[locs[i]] THEN << >>
    ELSE CollectLocation(locs[1], FetchHourly(src[locs[1]], t, TRUE))
         \o CollectAllOrNothing(Tail(locs), src, t, oks)

\* collected_data after the loop over MONITORING_LOCATIONS
RECURSIVE CollectAll(_, _, _, _)
CollectAll(locs, src, t, oks) ==
    IF locs = << >> THEN << >>
    ELSE CollectLocation(locs[1], FetchHourly(src[locs[1]], t, oks[locs[1]]))
         \o CollectAll(Tail(locs), src, t, oks)

-----------------------------------------------------------------------------
(* Store faults.  A plan names the one store call of an engine run that     *)
(* raises: none, the read, or the k-th write (save_forecast, save_alert, or *)
(* the commit of the analyzer and of save_measurements).                    *)

MaxFaultWrite == 2

NoFault == [op |-> "none", k |-> 0]

ReadFault == [op |-> "read", k |-> 0]

WriteFault(k) == [op |-> "write", k |-> k]

\* The engines that write once, in one commit
CommitFaults == {NoFault, ReadFault, WriteFault(1)}

\* The engines that write once per record
FaultPlans == {NoFault, ReadFault} \cup {WriteFault(k) : k \in 1..MaxFaultWrite}

WriteFails(plan, k) == plan.op = "write" /\ plan.k = k

-----------------------------------------------------------------------------
(* Grouping of a query result by location, as the engines' dict loops do *)

\* The keys of locations_data in insertion order: each location at the
\* place of its first row in ms
FirstSeen(ms) ==
    LET first == {i \in DOMAIN ms :
                     \A j \in 1..(i - 1) : ms[j].location_name # ms[i].location_name}
        idx == [i \in DOMAIN ms |-> i]
    IN  [k \in 1..Cardinality(first) |->
            ms[SelectSeq(idx, LAMBDA i : i \in first)[k]].location_name]

OfLocation(ms, loc) == SelectSeq(ms, LAMBDA m : m.location_name = loc)

-----------------------------------------------------------------------------
(* agents/forecaster.py *)

ForecastWindow == 48

MinTotalReadings == 10

\* A forecaster that never finds the readings too few
NeverTooFew(ms) == FALSE

\* len(measurements) < 10
TooFewReadings(ms) == Len(ms) < MinTotalReadings

MinLocationReadings == 5

FutureSteps == 24

ClipLow == 0

ClipHigh == 5000

\* data["pm25"] of one location: m.pm25 or 0, in the order of the query
ForecastSeries(ms, loc) ==
    LET own == OfLocation(ms, loc)
    IN  [i \in DOMAIN own |-> IF Truthy(own[i].pm25) THEN Val(own[i].pm25) ELSE 0]

\* LinearRegression().fit(X, y).predict(x0) for X = 0..n-1: the fraction
\* mean(y) + slope * (x0 - mean(X)), n >= 2
Predict(y, x0) ==
    LET n == Len(y)
    IN  <<SumSeq(y) * (n * n - 1) + 3 * Cross(y) * (2 * x0 - n + 1), SlopeDen(y)>>

\* The prediction used as it comes, without np.clip
Unclipped(v, lo, hi) == v

\* np.clip(v, lo, hi) of a fraction
Clip(v, lo, hi) ==
    IF v[1] < lo * v[2] THEN <<lo, 1>>
    ELSE IF v[1] > hi * v[2] THEN <<hi, 1>>
    ELSE v

\* predictions[-1]: the last of the 24 future steps, clipped
PredictedPm25(y) == Clip(Predict(y, Len(y) + FutureSteps - 1), ClipLow, ClipHigh)

ForecastRow(loc, y, t) ==
    LET p == PredictedPm25(y)
    IN  [location_name |-> loc,
         forecast_time |-> t + 24,
         predicted_pm25 |-> p,
         predicted_pm10 |-> <<3 * p[1], 2 * p[2]>>,
         predicted_aqi |-> calculate_aqi(p),
         confidence |-> <<75, 100>>]

\* The loop over locations_data; k counts the save_forecast calls made so
\* far.  A save that raises is caught per location: that location is neither
\* persisted nor reported.  The result is the sequence of persisted rows.
RECURSIVE ForecastLoop(_, _, _, _, _)
ForecastLoop(locs, ms, t, k, plan) ==
    IF locs = << >> THEN << >>
    ELSE LET y == ForecastSeries(ms, locs[1])
         IN  IF Len(y) < MinLocationReadings
                 THEN ForecastLoop(Tail(locs), ms, t, k, plan)
             ELSE IF WriteFails(plan, k + 1)
                 THEN ForecastLoop(Tail(locs), ms, t, k + 1, plan)
             ELSE <<ForecastRow(locs[1], y, t)>>
                  \o ForecastLoop(Tail(locs), ms, t, k + 1, plan)

ForecastReport(rows) ==
    [i \in DOMAIN rows |->
        [location |-> rows[i].location_name,
         pm25 |-> rows[i].predicted_pm25,
         aqi |-> rows[i].predicted_aqi]]

-----------------------------------------------------------------------------
(* agents/alert_agent.py *)

AlertWindow == 1

Severity(aqi) == IF aqi > AqiUnhealthy THEN "danger" ELSE "warning"

\* An alert row that is born resolved
AlertRowResolved(m) ==
    [location_name |-> m.location_name,
     alert_type |-> "high_aqi",
     severity |-> Severity(calculate_aqi(<<Val(m.pm25), 1>>)),
     value |-> Val(m.pm25),
     threshold |-> AqiModerate,
     is_active |-> FALSE,
     resolved_at |-> Some(0)]

AlertRow(m) ==
    [location_name |-> m.location_name,
     alert_type |-> "high_aqi",
     severity |-> Severity(calculate_aqi(<<Val(m.pm25), 1>>)),
     value |-> Val(m.pm25),
     threshold |-> AqiModerate,
     is_active |-> TRUE,
     resolved_at |-> None]

\* The alert rule with AQI 100 itself raising an alert
QualifiesFromModerate(m) ==
    Truthy(m.pm25) /\ calculate_aqi(<<Val(m.pm25), 1>>) >= AqiModerate

Qualifies(m) ==
    Truthy(m.pm25) /\ calculate_aqi(<<Val(m.pm25), 1>>) > AqiModerate

\* A loop that raises one alert per location: a reading of a location that
\* has a qualifying reading earlier in the list is passed over
RECURSIVE AlertLoopCoalescing(_, _, _)
AlertLoopCoalescing(ms, k, plan) ==
    IF ms = << >> THEN <<<< >>, FALSE>>
    ELSE IF ~Qualifies(ms[1]) THEN AlertLoopCoalescing(Tail(ms), k, plan)
    ELSE IF WriteFails(plan, k + 1) THEN <<<< >>, TRUE>>
    ELSE LET others == SelectSeq(Tail(ms),
                           LAMBDA m : m.location_name # ms[1].location_name)
             rest == AlertLoopCoalescing(others, k + 1, plan)
         IN  <<<<AlertRow(ms[1])>> \o rest[1], rest[2]>>

\* The loop over the measurements; k counts the save_alert calls made so far.
\* A save that raises is not caught: the loop ends there.
\* <<rows persisted, whether the loop raised>>
RECURSIVE AlertLoop(_, _, _)
AlertLoop(ms, k, plan) ==
    IF ms = << >> THEN <<<< >>, FALSE>>
    ELSE IF ~Qualifies(ms[1]) THEN AlertLoop(Tail(ms), k, plan)
    ELSE IF WriteFails(plan, k + 1) THEN <<<< >>, TRUE>>
    ELSE LET rest == AlertLoop(Tail(ms), k + 1, plan)
         IN  <<<<AlertRow(ms[1])>> \o rest[1], rest[2]>>

AlertReport(rows) ==
    [i \in DOMAIN rows |->
        [location |-> rows[i].location_name, severity |-> rows[i].severity]]

-----------------------------------------------------------------------------
(* agents/analyzer.py *)

AnalysisWindow == 168

ZThreshold == 20

\* data["pm25"] of one location: the truthy values, in the order of the query
AnalysisSeries(ms, loc) ==
    LET own == SelectSeq(OfLocation(ms, loc), LAMBDA m : Truthy(m.pm25))
    IN  [i \in DOMAIN own |-> Val(own[i].pm25)]

AnalysisResult(ms, loc) ==
    LET y == AnalysisSeries(ms, loc)
    IN  [location |-> loc,
         pm25_trend |-> IF y # << >> THEN analyze_trend(y) ELSE "no_data",
         pm25_anomalies_count |->
             IF Len(y) > 3 THEN Len(detect_anomalies(y, ZThreshold)) ELSE 0,
         avg_pm25 |-> IF y # << >> THEN <<SumSeq(y), Len(y)>> ELSE <<0, 1>>,
         max_pm25 |-> IF y # << >> THEN MaxSeq(y) ELSE 0,
         min_pm25 |-> IF y # << >> THEN MinSeq(y) ELSE 0]

\* Only the first location analysed
AnalysisResultsFirst(ms) ==
    LET locs == FirstSeen(ms)
    IN  [i \in DOMAIN SubSeq(locs, 1, 1) |-> AnalysisResult(ms, locs[i])]

AnalysisResults(ms) ==
    LET locs == FirstSeen(ms)
    IN  [i \in DOMAIN locs |-> AnalysisResult(ms, locs[i])]

\* The texts: the collaborator's, or the fallback when it raised (the
\* detailed fallback is a fixed sentence followed by the error's message)
SummaryText(llm_ok) == IF llm_ok THEN "llm_summary" ELSE "fallback_summary"

DetailedText(llm_ok) == IF llm_ok THEN "llm_detailed" ELSE "fallback_detailed"

\* A row that keeps the numbers only when the collaborator answered
AnalysisRowTextOnly(r, llm_ok, t) ==
    [analysis_type |-> "weekly_trend",
     location_name |-> r.location,
     pm25_trend |-> IF llm_ok THEN r.pm25_trend ELSE "no_data",
     pm25_avg |-> IF llm_ok THEN r.avg_pm25 ELSE <<0, 1>>,
     anomalies_count |-> IF llm_ok THEN r.pm25_anomalies_count ELSE 0,
     summary |-> SummaryText(llm_ok),
     detailed_analysis |-> DetailedText(llm_ok),
     period_start |-> t - AnalysisWindow,
     period_end |-> t]

AnalysisRow(r, llm_ok, t) ==
    [analysis_type |-> "weekly_trend",
     location_name |-> r.location,
     pm25_trend |-> r.pm25_trend,
     pm25_avg |-> r.avg_pm25,
     anomalies_count |-> r.pm25_anomalies_count,
     summary |-> SummaryText(llm_ok),
     detailed_analysis |-> DetailedText(llm_ok),
     period_start |-> t - AnalysisWindow,
     period_end |-> t]

-----------------------------------------------------------------------------
(* agents/graph.py and backend/api.py: the task router *)

ValidTasks == {"collect_data", "analyze", "forecast", "check_alerts"}

\* Task names a caller may send: the four tasks and one that is none of them
TaskNames == ValidTasks \cup {"report"}

RoutingMap ==
    [t \in ValidTasks |->
        CASE t = "collect_data" -> "data_collector"
          [] t = "analyze" -> "analyzer"
          [] t = "forecast" -> "forecaster"
          [] t = "check_alerts" -> "alert_agent"]

\* A router whose fallback is another engine
RouteOtherDefault(task_type) ==
    IF task_type \in DOMAIN RoutingMap THEN RoutingMap[task_type]
    ELSE "analyzer"

\* routing_map.get(task_type, "data_collector")
Route(task_type) ==
    IF task_type \in DOMAIN RoutingMap THEN RoutingMap[task_type]
    ELSE "data_collector"

Engines == {"data_collector", "analyzer", "forecaster", "alert_agent"}

\* add_conditional_edges("supervisor", lambda state: state["next_agent"], {...})
ConditionalEdge(next_agent) ==
    CASE next_agent = "data_collector" -> "data_collector"
      [] next_agent = "analyzer" -> "analyzer"
      [] next_agent = "forecaster" -> "forecaster"
      [] next_agent = "alert_agent" -> "alert_agent"

\* A graph whose analyzer hands over to the forecaster instead of ending
EdgeChained(node) == IF node = "analyzer" THEN "forecaster" ELSE "END"

\* add_edge(node, END) for each of the four engines
EdgeAfter(node) == "END"

EmptyData == [tag |-> "empty", rows |-> << >>, count |-> 0, summary |-> ""]

IdleState ==
    [messages |-> << >>, task_type |-> "", next_agent |-> "", data |-> EmptyData]

NoResponse ==
    [kind |-> "none", code |-> 0, status |-> "", message |-> "", data |-> EmptyData]

HttpError(code) ==
    [kind |-> "http_error", code |-> code, status |-> "", message |-> "",
     data |-> EmptyData]

\* What a node returns is merged into the state: messages are added to the
\* ones already there (operator.add), data replaces the old value
Merge(st, messages, data) ==
    [st EXCEPT !.messages = st.messages \o messages, !.data = data]

\* An engine's return value {"messages": state["messages"] + [message], "data": data}
EngineReturn(st, message, data) ==
    Merge(st, Append(st.messages, message), data)

-----------------------------------------------------------------------------
(* Initial state: empty tables, no invocation running *)

SessionIds == {1, 2}

IdleSession ==
    [pc |-> "idle", data |-> << >>, pos |-> 0, pending |-> << >>, saved_count |-> 0]

Init ==
    /\ now = 0
    /\ source \in [LocationNames -> SeriesKinds]
    /\ measurements = << >>
    /\ forecasts = << >>
    /\ alerts = << >>
    /\ analyses = << >>
    /\ pc = "idle"
    /\ state = IdleState
    /\ entry = "api"
    /\ response = NoResponse
    /\ visited = << >>
    /\ requests = 0
    /\ ticks = 0
    /\ sessions = [s \in SessionIds |-> IdleSession]

-----------------------------------------------------------------------------
(* backend/api.py: run_agent, up to the call of the graph *)

StartState(t) ==
    [messages |-> <<"human">>, task_type |-> t, next_agent |-> "", data |-> EmptyData]

\* run_agent without its check of the task name
RunAgentUnchecked(t) ==
    /\ pc = "idle"
    /\ requests < MaxRequests
    /\ requests' = requests + 1
    /\ entry' = "api"
    /\ visited' = << >>
    /\ response' = NoResponse
    /\ state' = StartState(t)
    /\ pc' = "supervisor"
    /\ UNCHANGED <<now, source, tables, ticks, sessions>>

RunAgent(t) ==
    /\ pc = "idle"
    /\ requests < MaxRequests
    /\ requests' = requests + 1
    /\ entry' = "api"
    /\ visited' = << >>
    /\ IF t \notin ValidTasks
           THEN /\ response' = HttpError(400)
                /\ UNCHANGED <<pc, state>>
           ELSE /\ response' = NoResponse
                /\ state' = StartState(t)
                /\ pc' = "supervisor"
    /\ UNCHANGED <<now, source, tables, ticks, sessions>>

\* agent_graph.ainvoke called directly, with any task_type
GraphInvoke(t) ==
    /\ pc = "idle"
    /\ requests < MaxRequests
    /\ requests' = requests + 1
    /\ entry' = "graph"
    /\ visited' = << >>
    /\ response' = NoResponse
    /\ state' = StartState(t)
    /\ pc' = "supervisor"
    /\ UNCHANGED <<now, source, tables, ticks, sessions>>

\* supervisor_node and the conditional edge that follows it
Supervisor ==
    /\ pc = "supervisor"
    /\ LET next_agent == Route(state.task_type)
       IN  /\ state' = [Merge(state, state.messages, state.data)
                            EXCEPT !.next_agent = next_agent]
           /\ pc' = ConditionalEdge(next_agent)
    /\ visited' = Append(visited, "supervisor")
    /\ UNCHANGED <<now, source, tables, entry, response, requests, ticks, sessions>>

\* DataCollectorAgent.execute; oks tells which locations' fetches succeed
DataCollector(oks, plan) ==
    /\ pc = "data_collector"
    /\ visited' = Append(visited, "data_collector")
    /\ LET collected == CollectAll(Locations, source, now, oks)
           saved == save_measurements(measurements, collected)
       IN  IF collected # << >> /\ WriteFails(plan, 1)
               THEN /\ pc' = "raised"
                    /\ UNCHANGED <<measurements, state>>
           ELSE /\ pc' = EdgeAfter("data_collector")
                /\ measurements' = IF collected # << >> THEN saved[1] ELSE measurements
                /\ state' = EngineReturn(state, "collected",
                                [tag |-> "collect", rows |-> collected,
                                 count |-> IF collected # << >> THEN saved[2] ELSE 0,
                                 summary |-> ""])
    /\ UNCHANGED <<now, source, forecasts, alerts, analyses, entry, response,
                   requests, ticks, sessions>>

\* AnalyzerAgent.execute from its first line to its return; llm_ok tells
\* whether the text collaborator answers or raises
AnalyzerRun(llm_ok, plan) ==
    /\ visited' = Append(visited, "analyzer")
    /\ LET ms == get_recent_measurements(measurements, now, AnalysisWindow)
           results == AnalysisResults(ms)
       IN  IF plan.op = "read"
               THEN /\ pc' = "raised"
                    /\ UNCHANGED <<analyses, state>>
           ELSE IF ms = << >>
               THEN /\ pc' = EdgeAfter("analyzer")
                    /\ state' = EngineReturn(state, "no_data", EmptyData)
                    /\ UNCHANGED analyses
           ELSE IF WriteFails(plan, 1)
               THEN /\ pc' = "raised"
                    /\ UNCHANGED <<analyses, state>>
           ELSE /\ pc' = EdgeAfter("analyzer")
                /\ analyses' = analyses \o
                       [i \in DOMAIN results |-> AnalysisRow(results[i], llm_ok, now)]
                /\ state' = EngineReturn(state, "analysis",
                                [tag |-> "analysis", rows |-> results,
                                 count |-> Len(results),
                                 summary |-> SummaryText(llm_ok)])
    /\ UNCHANGED <<now, source, measurements, forecasts, alerts, entry, response,
                   requests, ticks, sessions>>

\* The analyzer node of the graph, run without interruption
Analyzer(llm_ok, plan) == pc = "analyzer" /\ AnalyzerRun(llm_ok, plan)

\* ForecasterAgent.execute
Forecaster(plan) ==
    /\ pc = "forecaster"
    /\ visited' = Append(visited, "forecaster")
    /\ LET ms == get_recent_measurements(measurements, now, ForecastWindow)
           rows == ForecastLoop(FirstSeen(ms), ms, now, 0, plan)
       IN  IF plan.op = "read"
               THEN /\ pc' = "raised"
                    /\ UNCHANGED <<forecasts, state>>
           ELSE IF TooFewReadings(ms)
               THEN /\ pc' = EdgeAfter("forecaster")
                    /\ state' = EngineReturn(state, "insufficient_data", EmptyData)
                    /\ UNCHANGED forecasts
           ELSE /\ pc' = EdgeAfter("forecaster")
                /\ forecasts' = forecasts \o rows
                /\ state' = EngineReturn(state, "forecast",
                                [tag |-> "forecasts", rows |-> ForecastReport(rows),
                                 count |-> Len(rows), summary |-> ""])
    /\ UNCHANGED <<now, source, measurements, alerts, analyses, entry, response,
                   requests, ticks, sessions>>

\* AlertAgentWorker.execute
AlertAgent(plan) ==
    /\ pc = "alert_agent"
    /\ visited' = Append(visited, "alert_agent")
    /\ LET ms == get_recent_measurements(measurements, now, AlertWindow)
           out == AlertLoop(ms, 0, plan)
       IN  IF plan.op = "read"
               THEN /\ pc' = "raised"
                    /\ UNCHANGED <<alerts, state>>
           ELSE IF ms = << >>
               THEN /\ pc' = EdgeAfter("alert_agent")
                    /\ state' = EngineReturn(state, "no_recent_data", EmptyData)
                    /\ UNCHANGED alerts
           ELSE /\ alerts' = alerts \o out[1]
                /\ IF out[2]
                       THEN /\ pc' = "raised"
                            /\ UNCHANGED state
                       ELSE /\ pc' = EdgeAfter("alert_agent")
                            /\ state' = EngineReturn(state,
                                   IF out[1] # << >> THEN "alerts_created"
                                   ELSE "all_normal",
                                   [tag |-> "alerts", rows |-> AlertReport(out[1]),
                                    count |-> Len(out[1]), summary |-> ""])
    /\ UNCHANGED <<now, source, measurements, forecasts, analyses, entry, response,
                   requests, ticks, sessions>>

\* run_agent after the graph: the envelope, or HTTP 500 when the graph raised
Envelope(st) ==
    [kind |-> "envelope", code |-> 200, status |-> "success",
     message |-> IF st.messages # << >> THEN st.messages[Len(st.messages)]
                 ELSE "Task completed",
     data |-> st.data]

ReturnApi ==
    /\ pc \in {"END", "raised"}
    /\ entry = "api"
    /\ response' = IF pc = "END" THEN Envelope(state) ELSE HttpError(500)
    /\ pc' = "idle"
    /\ state' = IdleState
    /\ visited' = << >>
    /\ UNCHANGED <<now, source, tables, entry, requests, ticks, sessions>>

\* ainvoke returning the final state to a direct caller, or raising
ReturnGraph ==
    /\ pc \in {"END", "raised"}
    /\ entry = "graph"
    /\ response' = IF pc = "END" THEN [Envelope(state) EXCEPT !.kind = "state"]
                   ELSE [NoResponse EXCEPT !.kind = "exception"]
    /\ pc' = "idle"
    /\ state' = IdleState
    /\ visited' = << >>
    /\ UNCHANGED <<now, source, tables, entry, requests, ticks, sessions>>

\* Time passes between two invocations
TickHours == {1, 48}

Tick(hours) ==
    /\ pc = "idle"
    /\ ticks < MaxTicks
    /\ ticks' = ticks + 1
    /\ now' = now + hours
    /\ UNCHANGED <<source, tables, pc, state, entry, response, visited, requests,
                   sessions>>

Next ==
    \/ \E t \in TaskNames : RunAgent(t)
    \/ \E hours \in TickHours : Tick(hours)
    \/ Supervisor
    \/ \E oks \in [LocationNames -> BOOLEAN], plan \in {NoFault, WriteFault(1)} :
           DataCollector(oks, plan)
    \/ \E llm_ok \in BOOLEAN, plan \in CommitFaults : Analyzer(llm_ok, plan)
    \/ \E plan \in FaultPlans : Forecaster(plan)
    \/ \E plan \in FaultPlans : AlertAgent(plan)
    \/ ReturnApi

Spec == Init /\ [][Next]_vars

-----------------------------------------------------------------------------
(* The graph invoked directly, with any task name *)

NextGraph ==
    \/ \E t \in TaskNames : GraphInvoke(t)
    \/ Supervisor
    \/ \E oks \in [LocationNames -> BOOLEAN], plan \in {NoFault, WriteFault(1)} :
           DataCollector(oks, plan)
    \/ \E llm_ok \in BOOLEAN, plan \in CommitFaults : Analyzer(llm_ok, plan)
    \/ \E plan \in FaultPlans : Forecaster(plan)
    \/ \E plan \in FaultPlans : AlertAgent(plan)
    \/ ReturnGraph

SpecGraph == Init /\ [][NextGraph]_vars

-----------------------------------------------------------------------------
(* The store reads succeed; a write may fail.  The engines that write once  *)
(* per record meet at most one failing write in a run.                      *)

WriteFaultPlans == {NoFault} \cup {WriteFault(k) : k \in 1..MaxFaultWrite}

NextWriteFaults ==
    \/ \E t \in TaskNames : RunAgent(t)
    \/ \E hours \in TickHours : Tick(hours)
    \/ Supervisor
    \/ \E oks \in [LocationNames -> BOOLEAN], plan \in {NoFault, WriteFault(1)} :
           DataCollector(oks, plan)
    \/ \E llm_ok \in BOOLEAN, plan \in {NoFault, WriteFault(1)} : Analyzer(llm_ok, plan)
    \/ \E plan \in WriteFaultPlans : Forecaster(plan)
    \/ \E plan \in WriteFaultPlans : AlertAgent(plan)
    \/ ReturnApi

SpecWriteFaults == Init /\ [][NextWriteFaults]_vars

-----------------------------------------------------------------------------
(* The store works; the readings source may be down for a location, and    *)
(* then every fetch for that location fails.                                *)

DownKind == [name |-> "down", base |-> 0, step |-> 0, len |-> 0]

InitSource ==
    /\ now = 0
    /\ source \in [LocationNames -> SeriesKinds \cup {DownKind}]
    /\ measurements = << >>
    /\ forecasts = << >>
    /\ alerts = << >>
    /\ analyses = << >>
    /\ pc = "idle"
    /\ state = IdleState
    /\ entry = "api"
    /\ response = NoResponse
    /\ visited = << >>
    /\ requests = 0
    /\ ticks = 0
    /\ sessions = [s \in SessionIds |-> IdleSession]

\* Whether the fetches for each location succeed
SourceUp == [loc \in LocationNames |-> source[loc] # DownKind]

NextSource ==
    \/ \E t \in TaskNames : RunAgent(t)
    \/ \E hours \in TickHours : Tick(hours)
    \/ Supervisor
    \/ DataCollector(SourceUp, NoFault)
    \/ \E llm_ok \in BOOLEAN : Analyzer(llm_ok, NoFault)
    \/ Forecaster(NoFault)
    \/ AlertAgent(NoFault)
    \/ ReturnApi

SpecSource == InitSource /\ [][NextSource]_vars

-----------------------------------------------------------------------------
(* The source answers for every location, for some of them without the      *)
(* "pm2_5" array: the hourly times are there, the pollutant's series is not. *)

PartialKinds ==
    {[name |-> "no_pm25", base |-> 0, step |-> 0, len |-> 1],
     [name |-> "no_pm25", base |-> 0, step |-> 0, len |-> 3],
     [name |-> "no_pm25", base |-> 0, step |-> 0, len |-> 26],
     [name |-> "steady", base |-> 300, step |-> 0, len |-> 3],
     [name |-> "steady", base |-> 300, step |-> 0, len |-> 26]}

InitPartial ==
    /\ now = 0
    /\ source \in [LocationNames -> PartialKinds]
    /\ measurements = << >>
    /\ forecasts = << >>
    /\ alerts = << >>
    /\ analyses = << >>
    /\ pc = "idle"
    /\ state = IdleState
    /\ entry = "api"
    /\ response = NoResponse
    /\ visited = << >>
    /\ requests = 0
    /\ ticks = 0
    /\ sessions = [s \in SessionIds |-> IdleSession]

NextPartial ==
    \/ \E t \in TaskNames : RunAgent(t)
    \/ \E hours \in TickHours : Tick(hours)
    \/ Supervisor
    \/ DataCollector([loc \in LocationNames |-> TRUE], NoFault)
    \/ \E llm_ok \in BOOLEAN : Analyzer(llm_ok, NoFault)
    \/ Forecaster(NoFault)
    \/ AlertAgent(NoFault)
    \/ ReturnApi

SpecPartial == InitPartial /\ [][NextPartial]_vars

-----------------------------------------------------------------------------
(* Two collect_data invocations at once.  Each runs save_measurements in a  *)
(* session of its own: a SELECT sees the committed rows and the session's   *)
(* own pending rows; the pending rows reach the table at the commit.        *)

BriefKinds ==
    {[name |-> "single", base |-> 1500, step |-> 0, len |-> 1],
     [name |-> "brief", base |-> 300, step |-> 50, len |-> 3]}

InitSessions ==
    /\ now = 0
    /\ source \in [LocationNames -> BriefKinds]
    /\ measurements = << >>
    /\ forecasts = << >>
    /\ alerts = << >>
    /\ analyses = << >>
    /\ pc = "idle"
    /\ state = IdleState
    /\ entry = "api"
    /\ response = NoResponse
    /\ visited = << >>
    /\ requests = 0
    /\ ticks = 0
    /\ sessions = [s \in SessionIds |-> IdleSession]

\* DataCollectorAgent.execute up to the call of save_measurements
BeginSave(s, oks) ==
    /\ sessions[s].pc = "idle"
    /\ requests < MaxRequests
    /\ requests' = requests + 1
    /\ LET collected == CollectAll(Locations, source, now, oks)
       IN  sessions' = [sessions EXCEPT ![s] =
               IF collected = << >> THEN IdleSession
               ELSE [pc |-> "saving", data |-> collected, pos |-> 1,
                     pending |-> << >>, saved_count |-> 0]]
    /\ UNCHANGED <<now, source, tables, pc, state, entry, response, visited, ticks>>

\* One pass of the loop of save_measurements
SaveStep(s) ==
    /\ sessions[s].pc = "saving"
    /\ sessions[s].pos <= Len(sessions[s].data)
    /\ LET ses == sessions[s]
           r == SaveItem(measurements, ses.pending, ses.saved_count, ses.data[ses.pos])
       IN  sessions' = [sessions EXCEPT ![s] =
               [ses EXCEPT !.pending = r[1], !.saved_count = r[2], !.pos = ses.pos + 1]]
    /\ UNCHANGED <<now, source, tables, pc, state, entry, response, visited,
                   requests, ticks>>

\* session.commit() and the return of saved_count
SaveCommit(s) ==
    /\ sessions[s].pc = "saving"
    /\ sessions[s].pos > Len(sessions[s].data)
    /\ measurements' = measurements \o sessions[s].pending
    /\ sessions' = [sessions EXCEPT ![s] = IdleSession]
    /\ UNCHANGED <<now, source, forecasts, alerts, analyses, pc, state, entry,
                   response, visited, requests, ticks>>

NextSessions ==
    \E s \in SessionIds :
        \/ \E oks \in [LocationNames -> BOOLEAN] : BeginSave(s, oks)
        \/ SaveStep(s)
        \/ SaveCommit(s)

SpecSessions == InitSessions /\ [][NextSessions]_vars

-----------------------------------------------------------------------------
(* The analyzer with its suspension point: execute awaits self.llm.ainvoke, *)
(* and goes on when the collaborator has answered or the call has raised.   *)
(* The call is made with the client as __init__ built it: no timeout is     *)
(* passed and the await is not wrapped in one, so nothing in execute ends   *)
(* the wait but the collaborator.                                           *)

\* execute up to the first await of the collaborator; without readings it
\* returns before calling it
AnalyzerCall ==
    /\ pc = "analyzer"
    /\ IF get_recent_measurements(measurements, now, AnalysisWindow) = << >>
           THEN AnalyzerRun(TRUE, NoFault)
       ELSE /\ pc' = "awaiting_llm"
            /\ UNCHANGED <<now, source, tables, state, entry, response, visited,
                           requests, ticks, sessions>>

\* The collaborator answers (llm_ok) or the call raises; execute runs on to
\* its return
LlmReturns(llm_ok) ==
    /\ pc = "awaiting_llm"
    /\ AnalyzerRun(llm_ok, NoFault)

NextLlm ==
    \/ \E t \in TaskNames : RunAgent(t)
    \/ \E hours \in TickHours : Tick(hours)
    \/ Supervisor
    \/ \E oks \in [LocationNames -> BOOLEAN] : DataCollector(oks, NoFault)
    \/ AnalyzerCall
    \/ \E llm_ok \in BOOLEAN : LlmReturns(llm_ok)
    \/ Forecaster(NoFault)
    \/ AlertAgent(NoFault)
    \/ ReturnApi

\* The steps of an analyze invocation that are the program's own: the event
\* loop runs a coroutine that is ready, so each of them is taken when it can
\* be.  That the collaborator ever answers is not assumed.
LlmFairness ==
    /\ WF_vars(Supervisor)
    /\ WF_vars(AnalyzerCall)
    /\ WF_vars(ReturnApi)

\* The source holds the brief series, as for the interleaved sessions
SpecLlm == InitSessions /\ [][NextLlm]_vars /\ LlmFairness

-----------------------------------------------------------------------------
(* save_measurements on its own: a stored table and a batch, both drawn from
   a small set of readings *)

MaxBatch == 3

MaxStored == 2

\* Readings of two locations and two hours; the first location's first hour
\* is read with two different values
BatchItems ==
    {[location_name |-> l, timestamp |-> t, pm25 |-> Some(100)] :
        l \in LocationNames, t \in {1, 2}}
    \cup {[location_name |-> Locations[1], timestamp |-> 1, pm25 |-> None]}

Batches == UNION {[1..n -> BatchItems] : n \in 0..MaxBatch}

\* Tables that earlier saves, one after the other, can have left
StoredTables ==
    {save_measurements(<< >>, data)[1] :
        data \in UNION {[1..n -> BatchItems] : n \in 0..MaxStored}}

InitSave ==
    /\ \E kind \in SeriesKinds :
           /\ kind.name = "single"
           /\ source = [l \in LocationNames |-> kind]
    /\ now = 0
    /\ measurements \in StoredTables
    /\ forecasts = << >>
    /\ alerts = << >>
    /\ analyses = << >>
    /\ pc = "idle"
    /\ \E data \in Batches :
           state = [IdleState EXCEPT !.data = [EmptyData EXCEPT
               !.tag = "batch", !.rows = data]]
    /\ entry = "api"
    /\ response = NoResponse
    /\ visited = << >>
    /\ requests = 0
    /\ ticks = 0
    /\ sessions = [s \in SessionIds |-> IdleSession]

\* saved_count = await save_measurements(session, collected_data)
SaveBatch ==
    /\ pc = "idle"
    /\ state.data.tag = "batch"
    /\ LET r == save_measurements(measurements, state.data.rows)
       IN  /\ measurements' = r[1]
           /\ state' = [state EXCEPT !.data.tag = "collect", !.data.count = r[2]]
    /\ UNCHANGED <<now, source, forecasts, alerts, analyses, pc, entry,
                   response, visited, requests, ticks, sessions>>

NextSave == SaveBatch

SpecSave == InitSave /\ [][NextSave]_vars

-----------------------------------------------------------------------------
(* The metric functions on their own: an input drawn from a small set, and
   one application of calculate_aqi, analyze_trend or detect_anomalies *)

MaxPm == 5100

MaxNegPm == 20

\* Concentrations on the 0.1 grid, from -2.0 to 510.0, in tenths
PmInputs == {0 - n : n \in 1..MaxNegPm} \cup (0..MaxPm)

MetricInput(tag, values, threshold) ==
    [tag |-> tag, values |-> values, threshold |-> threshold, result |-> 0]

MaxSeries == 4

\* Values of a series, in tenths: 0.1 and 0.3 are not binary fractions
SeriesValues == {0, 1, 3, 5, 10, 30}

SeriesInputs == UNION {[1..n -> SeriesValues] : n \in 0..MaxSeries}

\* Thresholds in tenths, the default 2.0 among them
ThresholdInputs == {0, 5, 10, ZThreshold, 30}

MetricInputs ==
    {MetricInput("pm25", <<pm>>, 0) : pm \in PmInputs}
    \cup {MetricInput("series", values, threshold) :
              values \in SeriesInputs, threshold \in ThresholdInputs}

InitMetrics ==
    /\ \E kind \in SeriesKinds :
           /\ kind.name = "single"
           /\ source = [l \in LocationNames |-> kind]
    /\ now = 0
    /\ measurements = << >>
    /\ forecasts = << >>
    /\ alerts = << >>
    /\ analyses = << >>
    /\ pc = "idle"
    /\ \E input \in MetricInputs : state = [IdleState EXCEPT !.data = input]
    /\ entry = "api"
    /\ response = NoResponse
    /\ visited = << >>
    /\ requests = 0
    /\ ticks = 0
    /\ sessions = [s \in SessionIds |-> IdleSession]

\* aqi = calculate_aqi(pm25)
AqiOf ==
    /\ state.data.tag = "pm25"
    /\ state' = [state EXCEPT !.data.tag = "aqi",
                              !.data.result = calculate_aqi(<<state.data.values[1], 1>>)]
    /\ UNCHANGED <<now, source, tables, pc, entry, response, visited, requests,
                   ticks, sessions>>

\* anomalies = detect_anomalies(values, threshold)
AnomaliesOf ==
    /\ state.data.tag = "series"
    /\ state' = [state EXCEPT !.data.tag = "anomalies",
                              !.data.result = detect_anomalies(state.data.values,
                                                               state.data.threshold)]
    /\ UNCHANGED <<now, source, tables, pc, entry, response, visited, requests,
                   ticks, sessions>>

NextMetrics ==
    \/ AqiOf
    \/ AnomaliesOf

SpecMetrics == InitMetrics /\ [][NextMetrics]_vars

-----------------------------------------------------------------------------
(* The engines that read the store, over a store that is given: check_alerts, *)
(* forecast and analyze invoked through run_agent, with the Measurement table *)
(* as earlier collections may have left it.  The store works: no read or    *)
(* write of it fails.                                                         *)

\* PM2.5 values of a stored reading: null, 0, a negative value, and values
\* around the alert thresholds (35.4 and 35.8 have AQI 100, 35.9 has 101,
\* 151.4 has 200, 151.5 has 201)
StoredValues ==
    {None, Some(0), Some(0 - 20), Some(354), Some(358), Some(359), Some(1514),
     Some(1515)}

\* Hours of a stored reading: before the trailing hour, in it, and an hour of
\* the current day that has not elapsed yet
StoredHours == {0 - 2, 0 - 1, 0, 1}

StoredReadings ==
    {[location_name |-> loc, timestamp |-> t, pm25 |-> v] :
        loc \in LocationNames, t \in StoredHours, v \in StoredValues}

\* Two readings with different keys, the first one at the first location
ReadingPairs ==
    {<<r1, r2>> : r1 \in {r \in StoredReadings : r.location_name = Locations[1]},
                  r2 \in StoredReadings} \ {p \in StoredReadings \X StoredReadings : SameKey(p[1], p[2])}

\* Hourly readings of both locations: a of the first location, rising by 2.0
\* an hour, the last one at hour `last`, and b of the second, falling by 20.0
\* an hour up to hour 0.  The h-th reading of the first location carries hv
\* as its PM2.5 (h = 0: none does).
HourlyTable(a, b, last, h, hv) ==
    [i \in 1..a |->
        [location_name |-> Locations[1],
         timestamp |-> last - a + i,
         pm25 |-> IF i = h THEN hv ELSE Some(100 + 20 * i)]]
    \o [j \in 1..b |->
        [location_name |-> Locations[2],
         timestamp |-> j - b,
         pm25 |-> Some(4800 - 200 * j)]]

\* Around the forecaster's thresholds of 5 readings a location and 10 in all;
\* one reading may be null or 0, and the newest may lie an hour ahead
HourlyTables ==
    {HourlyTable(a, b, last, h, hv) :
        a \in 4..6, b \in 5..6, last \in 0..1, h \in 0..3, hv \in {None, Some(0)}}

InitStore ==
    /\ now = 0
    /\ \E kind \in SeriesKinds : kind.name = "single"
           /\ source = [l \in LocationNames |-> kind]
    /\ measurements \in ReadingPairs \cup HourlyTables
    /\ forecasts = << >>
    /\ alerts = << >>
    /\ analyses = << >>
    /\ pc = "idle"
    /\ state = IdleState
    /\ entry = "api"
    /\ response = NoResponse
    /\ visited = << >>
    /\ requests = 0
    /\ ticks = 0
    /\ sessions = [s \in SessionIds |-> IdleSession]

ReadingTasks == {"analyze", "forecast", "check_alerts"}

NextStore ==
    \/ \E t \in ReadingTasks : RunAgent(t)
    \/ Supervisor
    \/ \E llm_ok \in BOOLEAN : Analyzer(llm_ok, NoFault)
    \/ Forecaster(NoFault)
    \/ AlertAgent(NoFault)
    \/ ReturnApi

SpecStore == InitStore /\ [][NextStore]_vars

-----------------------------------------------------------------------------
(* Properties *)

LastMessage(st) == st.messages[Len(st.messages)]

\* The rows a step appended to a table
Added(old, new) == SubSeq(new, Len(old) + 1, Len(new))

EmptyTables ==
    measurements = << >> /\ forecasts = << >> /\ alerts = << >> /\ analyses = << >>

NoDataMessages == {"no_data", "insufficient_data", "no_recent_data"}

\* C1: in every reachable state there is at most one Measurement row per
\* (location, timestamp) pair, also when two collect_data invocations run
\* interleaved against the same store with overlapping readings.
C1_OneRowPerKey ==
    \A i, j \in DOMAIN measurements :
        SameKey(measurements[i], measurements[j]) => i = j

\* C2: save_measurements is idempotent per reading.  A save appends rows and
\* changes none; a reading whose (location, timestamp) is already stored, or
\* comes earlier in the same batch, adds no row: no appended row has the key
\* of a stored row and no two appended rows share a key; the batch does not
\* fail: every reading of the batch has its key in the table afterwards; and
\* the returned count is the number of rows appended.
C2_IdempotentInsert ==
    [][(state.data.tag = "batch" /\ state'.data.tag = "collect") =>
        LET added == Added(measurements, measurements')
            data == state.data.rows
        IN  /\ SubSeq(measurements', 1, Len(measurements)) = measurements
            /\ \A i \in DOMAIN added : \A j \in DOMAIN measurements :
                   ~SameKey(measurements[j], added[i])
            /\ \A i, j \in DOMAIN added : SameKey(added[i], added[j]) => i = j
            /\ \A i \in DOMAIN data : \E j \in DOMAIN measurements' :
                   SameKey(measurements'[j], data[i])
            /\ \A i \in DOMAIN added : \E j \in DOMAIN data :
                   added[i] = MeasurementRow(data[j])
            /\ state'.data.count = Len(added)]_vars

\* A batch of three readings, one stored before and two of the same key, has
\* been saved: one row added, count 1
C2_Witness ==
    /\ state.data.tag = "collect"
    /\ Len(state.data.rows) = 3
    /\ state.data.count = 1
    /\ Len(measurements) = 2
    /\ SameKey(measurements[1], state.data.rows[1])
    /\ SameKey(state.data.rows[2], state.data.rows[3])
    /\ state.data.rows[2] # state.data.rows[3]
    /\ measurements[2] = MeasurementRow(state.data.rows[2])

TrailingHour(loc) ==
    OfLocation(get_recent_measurements(measurements, now, AlertWindow), loc)

\* The store holds a single reading, PM2.5 = 150.0, for loc in the trailing hour
SingleReading150(loc) ==
    /\ Len(TrailingHour(loc)) = 1
    /\ TrailingHour(loc)[1].pm25 = Some(1500)

\* C4 as stated: with a single reading of PM2.5 = 150 for a location in the
\* trailing hour, check_alerts creates exactly one Alert for that location,
\* of severity "danger".
C4_SingleReadingDanger ==
    [][(pc = "alert_agent" /\ pc' = "END") =>
        \A loc \in LocationNames : SingleReading150(loc) =>
            LET mine == OfLocation(Added(alerts, alerts'), loc)
            IN  Len(mine) = 1 /\ mine[1].severity = "danger"]_vars

\* C4 amended: with a single reading of PM2.5 = 150 for a location in the
\* trailing hour, check_alerts creates exactly one Alert for that location;
\* its value is 150, its severity is "warning" (the AQI of 150.0 is 199, not
\* above 200), and the alert is the one reported for the location.
C4_SingleReadingWarning ==
    [][(pc = "alert_agent" /\ pc' = "END") =>
        \A loc \in LocationNames : SingleReading150(loc) =>
            LET mine == OfLocation(Added(alerts, alerts'), loc)
            IN  /\ Len(mine) = 1
                /\ mine[1].severity = "warning"
                /\ mine[1].value = 1500
                /\ calculate_aqi(<<mine[1].value, 1>>) = 199
                /\ LastMessage(state') = "alerts_created"]_vars

\* check_alerts has returned after creating the alert of the single reading
C4_Witness ==
    /\ pc = "END"
    /\ visited = <<"supervisor", "alert_agent">>
    /\ \E loc \in LocationNames :
           /\ SingleReading150(loc)
           /\ Len(OfLocation(alerts, loc)) = 1
           /\ OfLocation(alerts, loc)[1].severity = "warning"

\* The rows of loc among ms are n hourly readings, each 2.0 above the one of
\* the hour before
RisingByTwo(ms, loc, n) ==
    LET mine == OfLocation(ms, loc)
    IN  /\ Len(mine) = n
        /\ \E i \in DOMAIN mine :
               LET t0 == mine[i].timestamp
                   v0 == Val(mine[i].pm25)
               IN  {<<mine[j].timestamp, mine[j].pm25>> : j \in DOMAIN mine}
                       = {<<t0 + k, Some(v0 + 20 * k)>> : k \in 0..(n - 1)}

\* The value of the latest reading of loc among ms
LastObserved(ms, loc) ==
    LET mine == OfLocation(ms, loc)
        ts == [j \in DOMAIN mine |-> mine[j].timestamp]
    IN  Val((CHOOSE m \in Range(mine) : m.timestamp = MaxSeq(ts)).pm25)

\* C5: the forecast fit takes each location's series in chronological order:
\* when a location has 20 hourly readings rising by 2 per hour, every
\* forecast the task persists or returns for it has a predicted PM2.5
\* strictly greater than the last observed value.
C5_ForecastAboveLast ==
    [][(pc = "forecaster" /\ pc' = "END") =>
        LET ms == get_recent_measurements(measurements, now, ForecastWindow)
        IN  \A loc \in LocationNames : RisingByTwo(ms, loc, 20) =>
                /\ \A i \in DOMAIN state'.data.rows :
                       state'.data.rows[i].location = loc =>
                           state'.data.rows[i].pm25[1] >
                               LastObserved(ms, loc) * state'.data.rows[i].pm25[2]
                /\ \A i \in DOMAIN forecasts' :
                       (i > Len(forecasts) /\ forecasts'[i].location_name = loc) =>
                           forecasts'[i].predicted_pm25[1] >
                               LastObserved(ms, loc) * forecasts'[i].predicted_pm25[2]]_vars

\* C6: when a location has 20 hourly readings rising by 2 per hour, the
\* analyze task reports and persists the trend "increasing" for it.
C6_TrendIncreasing ==
    [][(pc = "analyzer" /\ pc' = "END") =>
        LET ms == get_recent_measurements(measurements, now, AnalysisWindow)
        IN  \A loc \in LocationNames : RisingByTwo(ms, loc, 20) =>
                /\ \A i \in DOMAIN state'.data.rows :
                       state'.data.rows[i].location = loc =>
                           state'.data.rows[i].pm25_trend = "increasing"
                /\ \A i \in DOMAIN analyses' :
                       (i > Len(analyses) /\ analyses'[i].location_name = loc) =>
                           analyses'[i].pm25_trend = "increasing"]_vars
\* C7: the router sends collect_data, analyze, forecast and check_alerts to
\* the collector, the analyzer, the forecaster and the alert engine, and
\* every other task name to the collector; it raises for none.
C7_RouterTable ==
    [][pc = "supervisor" =>
        /\ pc' = CASE state.task_type = "collect_data" -> "data_collector"
                   [] state.task_type = "analyze" -> "analyzer"
                   [] state.task_type = "forecast" -> "forecaster"
                   [] state.task_type = "check_alerts" -> "alert_agent"
                   [] OTHER -> "data_collector"
        /\ state'.next_agent = pc']_vars

\* A task name outside the table has been routed to the collector
C7_Witness ==
    /\ pc = "data_collector"
    /\ state.task_type \notin ValidTasks
    /\ state.next_agent = "data_collector"

\* C8: every invocation goes idle -> router -> exactly one engine -> idle.
\* The engine is the one the routing table selects, no second engine runs
\* in the same request, the graph ends when the engine returns, and an
\* invocation starts from a fresh state whatever the one before it left.
C8_OneEnginePerRequest ==
    [][/\ pc = "idle" => pc' \in {"idle", "supervisor"}
       /\ (pc = "idle" /\ pc' = "supervisor") =>
              /\ visited' = << >>
              /\ state' = StartState(state'.task_type)
       /\ pc = "supervisor" =>
              /\ visited = << >>
              /\ pc' = RoutingMap[state.task_type]
       /\ pc \in Engines =>
              /\ pc' \in {"END", "raised"}
              /\ visited' = <<"supervisor", pc>>
       /\ pc \in {"END", "raised"} =>
              /\ pc' = "idle"
              /\ state' = IdleState
              /\ visited' = << >>
              /\ tables' = tables]_vars

\* An invocation has run the analyzer, and only it, and the graph has ended
C8_Witness ==
    /\ pc = "END"
    /\ requests = MaxRequests
    /\ state.task_type = "analyze"
    /\ visited = <<"supervisor", "analyzer">>

\* C9: every invocation returns the envelope {status, message, data} with
\* status "success" or "error", also when the engine fails part-way: the
\* call never ends in an unhandled failure.
C9_AlwaysEnvelope ==
    [][(pc \in {"END", "raised"} /\ pc' = "idle") =>
        /\ response'.kind = "envelope"
        /\ response'.status \in {"success", "error"}]_vars

\* A predicted PM2.5, a fraction in tenths, lies within [0, 500]
InRange(p) == 0 <= p[1] /\ p[1] <= 5000 * p[2]

\* C10: every Forecast the forecast task persists or returns has its
\* predicted PM2.5 within [0, 500], whatever the input series.
C10_ForecastClipped ==
    /\ \A i \in DOMAIN forecasts : InRange(forecasts[i].predicted_pm25)
    /\ state.data.tag = "forecasts" =>
           \A i \in DOMAIN state.data.rows : InRange(state.data.rows[i].pm25)
    /\ response.data.tag = "forecasts" =>
           \A i \in DOMAIN response.data.rows : InRange(response.data.rows[i].pm25)

\* The forecast task has returned one forecast clipped at 500 and one
\* clipped at 0
C10_Witness ==
    /\ response.kind = "envelope"
    /\ response.data.tag = "forecasts"
    /\ \E i, j \in DOMAIN response.data.rows :
           /\ response.data.rows[i].pm25 = <<5000, 1>>
           /\ response.data.rows[j].pm25 = <<0, 1>>
    /\ \E i, j \in DOMAIN forecasts :
           /\ forecasts[i].predicted_pm25 = <<5000, 1>>
           /\ forecasts[j].predicted_pm25 = <<0, 1>>

\* C11: calculate_aqi is exact at the breakpoints: calculate_aqi(12.0) = 50
\* and calculate_aqi(35.4) = 100.
C11_BreakpointsExact ==
    state.data.tag = "aqi" =>
        /\ state.data.values[1] = 120 => state.data.result = 50
        /\ state.data.values[1] = 354 => state.data.result = 100

\* calculate_aqi has been applied to 35.4 and has returned 100
C11_Witness ==
    /\ state.data.tag = "aqi"
    /\ state.data.values[1] = 354
    /\ state.data.result = 100

\* The 0-based indices of values whose deviation from the mean exceeds
\* threshold (in tenths) times the population standard deviation, in exact
\* arithmetic: n * (n * v[i] - sum)^2 * 100 > threshold^2 * sum of the squares
ExceedingIndices(values, threshold) ==
    LET n == Len(values)
        sum == SumSeq(values)
        dev == [i \in 1..n |-> n * values[i] - sum]
        ss == SumSeq([i \in 1..n |-> dev[i] * dev[i]])
        idx == [i \in 1..n |-> i - 1]
    IN  SelectSeq(idx, LAMBDA k :
            n * dev[k + 1] * dev[k + 1] * 100 > threshold * threshold * ss)

\* C13: detect_anomalies returns the empty list for every sequence of length
\* < 3 and for every constant sequence, whatever the threshold; otherwise it
\* returns exactly the indices whose absolute deviation from the population
\* mean exceeds threshold times the population standard deviation.
C13_AnomaliesRule ==
    state.data.tag = "anomalies" =>
        LET values == state.data.values
            constant == \A i \in DOMAIN values : values[i] = values[1]
        IN  IF Len(values) < 3 \/ constant THEN state.data.result = << >>
            ELSE state.data.result = ExceedingIndices(values, state.data.threshold)

\* C14: after any sequence of collect_data, analyze, forecast and check_alerts
\* invocations every Alert row has is_active = true and resolved_at = null.
C14_AlertsStayActive ==
    \A i \in DOMAIN alerts :
        alerts[i].is_active = TRUE /\ IsNone(alerts[i].resolved_at)

\* check_alerts has created two alerts and has returned
C14_Witness ==
    /\ pc = "idle"
    /\ response.kind = "envelope"
    /\ response.data.tag = "alerts"
    /\ Len(alerts) >= 2

\* C15: Measurement rows are immutable and never deleted: every step keeps
\* each existing Measurement in place with unchanged fields, and only
\* collect_data (the data collector) changes the Measurement table; analyze,
\* forecast and check_alerts leave it unchanged.
C15_MeasurementsImmutable ==
    [][/\ Len(measurements') >= Len(measurements)
       /\ \A i \in DOMAIN measurements : measurements'[i] = measurements[i]
       /\ measurements' # measurements => pc = "data_collector"]_vars

\* A second collect_data, two days after the first, has added rows to a table
\* that already held some
C15_Witness ==
    /\ pc = "END"
    /\ visited = <<"supervisor", "data_collector">>
    /\ requests = 2
    /\ \E i, j \in DOMAIN measurements :
           /\ measurements[i].timestamp < now - KeepHours
           /\ measurements[j].timestamp = now

\* The number of stored readings not older than the given number of hours
ReadingsWithin(hours) ==
    Cardinality({i \in DOMAIN measurements :
                    measurements[i].timestamp >= now - hours})

\* C16: a forecast run that sees fewer than 10 readings in the trailing 48
\* hours writes nothing and returns "insufficient data"; a check_alerts run
\* that sees no reading in the trailing hour writes nothing and returns
\* "no data".
C16_ShortCircuitsWriteNothing ==
    [][/\ (pc = "forecaster" /\ pc' # pc /\ ReadingsWithin(ForecastWindow) < 10) =>
           /\ tables' = tables
           /\ pc' = "END" =>
                  /\ LastMessage(state') = "insufficient_data"
                  /\ state'.data = EmptyData
       /\ (pc = "alert_agent" /\ pc' # pc /\ ReadingsWithin(AlertWindow) = 0) =>
           /\ tables' = tables
           /\ pc' = "END" =>
                  /\ LastMessage(state') = "no_recent_data"
                  /\ state'.data = EmptyData]_vars

\* The forecaster has returned "insufficient data" over a store that holds
\* readings, fewer than 10 of them
C16_Witness ==
    /\ pc = "END"
    /\ visited = <<"supervisor", "forecaster">>
    /\ measurements # << >>
    /\ ReadingsWithin(ForecastWindow) < 10
    /\ forecasts = << >>
    /\ LastMessage(state) = "insufficient_data"

\* check_alerts has returned "no data" over a store whose readings are all
\* older than an hour
C16_StaleReadings ==
    /\ pc = "END"
    /\ visited = <<"supervisor", "alert_agent">>
    /\ measurements # << >>
    /\ ReadingsWithin(AlertWindow) = 0
    /\ alerts = << >>
    /\ LastMessage(state) = "no_recent_data"

\* The locations with a reading in the trailing week
AnalysedLocations ==
    {measurements[i].location_name :
        i \in {j \in DOMAIN measurements :
                  measurements[j].timestamp >= now - AnalysisWindow}}

AlertsDue ==
    Cardinality({i \in DOMAIN measurements :
                    /\ measurements[i].timestamp >= now - AlertWindow
                    /\ Qualifies(measurements[i])})

\* The locations that get a forecast: at least 5 readings in the trailing 48
\* hours, when there are at least 10 readings in all
ForecastsDue ==
    IF ReadingsWithin(ForecastWindow) < 10 THEN 0
    ELSE Cardinality({loc \in LocationNames :
             Cardinality({i \in DOMAIN measurements :
                             /\ measurements[i].timestamp >= now - ForecastWindow
                             /\ measurements[i].location_name = loc}) >= 5})

\* C18: a store write failure on a single record does not abort a run of
\* analyze, forecast or check_alerts: the run still returns its result and
\* the records of the remaining locations or readings are persisted, so that
\* at most one of the records due is missing.
C18_WriteFailureContinues ==
    [][/\ (pc = "analyzer" /\ pc' # pc) =>
           /\ pc' = "END"
           /\ Len(Added(analyses, analyses')) >= Cardinality(AnalysedLocations) - 1
       /\ (pc = "forecaster" /\ pc' # pc) =>
           /\ pc' = "END"
           /\ Len(Added(forecasts, forecasts')) >= ForecastsDue - 1
       /\ (pc = "alert_agent" /\ pc' # pc) =>
           /\ pc' = "END"
           /\ Len(Added(alerts, alerts')) >= AlertsDue - 1]_vars

\* The part of C18 that holds: a forecast run always returns and misses at
\* most one of the forecasts due
C18_ForecastContinues ==
    [][(pc = "forecaster" /\ pc' # pc) =>
           /\ pc' = "END"
           /\ Len(Added(forecasts, forecasts')) >= ForecastsDue - 1]_vars

\* The readings the source holds for loc at the current hour
SourceReadings(loc) ==
    LET kind == source[loc]
    IN  {[location_name |-> loc,
          timestamp |-> now - kind.len + i,
          pm25 |-> Some(kind.base + kind.step * (i - 1))] : i \in 1..kind.len}

\* C19: a failure of the readings source for one location never aborts
\* collect_data: the job returns normally, and every reading of every
\* location whose source answers is collected and is in the store.
C19_SourceFailureIsolated ==
    [][(pc = "data_collector" /\ pc' # pc) =>
           /\ pc' = "END"
           /\ LastMessage(state') = "collected"
           /\ \A loc \in LocationNames :
                  source[loc] # DownKind =>
                      \A r \in SourceReadings(loc) :
                          /\ r \in Range(state'.data.rows)
                          /\ \E i \in DOMAIN measurements' :
                                 SameKey(measurements'[i], r)]_vars

\* collect_data has returned with the source down for one location and has
\* stored the readings of the other
C19_Witness ==
    /\ pc = "END"
    /\ visited = <<"supervisor", "data_collector">>
    /\ \E down, up \in LocationNames :
           /\ source[down] = DownKind
           /\ source[up] # DownKind
           /\ OfLocation(measurements, down) = << >>
           /\ Len(OfLocation(measurements, up)) = source[up].len

\* C20: the analyze task always eventually returns, even if the text
\* collaborator never responds.
C20_AnalyzeReturns == (pc = "analyzer") ~> (pc = "idle")

\* The stored readings a check_alerts run reads: those not older than an hour
ReadInHour == {i \in DOMAIN measurements : measurements[i].timestamp >= now - 1}

\* The AQI of a stored reading with a PM2.5 value
AqiOfReading(m) == calculate_aqi(<<m.pm25[1], 1>>)

\* C21: check_alerts creates an Alert for a reading of the trailing hour with
\* non-null PM2.5 if and only if its AQI is > 100; the severity is "danger" if
\* and only if the AQI is also > 200 and "warning" otherwise, the type is
\* "high_aqi" and the threshold is 100.
C21_AlertRule ==
    [][(pc = "alert_agent" /\ pc' = "END") =>
           LET added == Added(alerts, alerts')
               due == {i \in ReadInHour :
                          /\ measurements[i].pm25 # None
                          /\ AqiOfReading(measurements[i]) > 100}
           IN  /\ Len(added) = Cardinality(due)
               /\ \A i \in due :
                      \E k \in DOMAIN added :
                          /\ added[k].location_name = measurements[i].location_name
                          /\ added[k].value = measurements[i].pm25[1]
                          /\ added[k].severity =
                                 IF AqiOfReading(measurements[i]) > 200 THEN "danger"
                                 ELSE "warning"
               /\ \A k \in DOMAIN added :
                      /\ added[k].alert_type = "high_aqi"
                      /\ added[k].threshold = 100
                      /\ \E i \in due :
                             /\ added[k].location_name = measurements[i].location_name
                             /\ added[k].value = measurements[i].pm25[1]]_vars

\* check_alerts has returned over a trailing hour that holds a reading of AQI
\* 201 and a reading of AQI 100: one alert, of severity "danger"
C21_Witness ==
    /\ pc = "END"
    /\ visited = <<"supervisor", "alert_agent">>
    /\ \E i, j \in ReadInHour :
           /\ measurements[i].pm25 = Some(1515)
           /\ measurements[j].pm25 = Some(358)
    /\ Len(alerts) = 1
    /\ alerts[1].severity = "danger"
    /\ alerts[1].value = 1515

\* The number of readings a check_alerts run reads that call for an alert
QualifyingReadings ==
    Cardinality({i \in ReadInHour :
                    /\ measurements[i].pm25 # None
                    /\ AqiOfReading(measurements[i]) > 100})

\* C22: check_alerts creates exactly one new Alert row per qualifying
\* reading, without coalescing readings of one location and without
\* deduplication against existing alerts: every run that returns adds as
\* many rows as there are qualifying readings and keeps the rows there were,
\* so k runs over an unchanged store with q qualifying readings leave k * q
\* rows.
C22_OneAlertPerReading ==
    [][(pc = "alert_agent" /\ pc' = "END") =>
           /\ Len(alerts') = Len(alerts) + QualifyingReadings
           /\ SubSeq(alerts', 1, Len(alerts)) = alerts
           /\ measurements' = measurements]_vars

\* Two check_alerts runs have returned over a store with two qualifying
\* readings of one location: four alerts, all of that location
C22_Witness ==
    /\ pc = "END"
    /\ requests = 2
    /\ visited = <<"supervisor", "alert_agent">>
    /\ QualifyingReadings = 2
    /\ measurements[1].location_name = measurements[2].location_name
    /\ Len(alerts) = 4
    /\ \A i \in DOMAIN alerts : alerts[i].location_name = measurements[1].location_name

\* The stored readings of loc, not older than 48 hours, that carry a PM2.5
\* value
Pm25Readings(loc) ==
    {i \in DOMAIN measurements :
        /\ measurements[i].location_name = loc
        /\ measurements[i].timestamp >= now - ForecastWindow
        /\ measurements[i].pm25 # None}

\* C23: a forecast run that passes the 10-reading check persists exactly one
\* Forecast for each location with at least 5 readings carrying a PM2.5 value
\* in the trailing 48 hours and none for a location with fewer; the skipped
\* locations are left out of the result, and the run returns.
C23_ForecastPerLocation ==
    [][(pc = "forecaster" /\ pc' # pc /\ ReadingsWithin(ForecastWindow) >= 10) =>
           LET added == Added(forecasts, forecasts')
               due == {loc \in LocationNames : Cardinality(Pm25Readings(loc)) >= 5}
           IN  /\ pc' = "END"
               /\ Len(added) = Cardinality(due)
               /\ {added[k].location_name : k \in DOMAIN added} = due
               /\ {state'.data.rows[k].location : k \in DOMAIN state'.data.rows} = due]_vars

\* C24: an analyze run that finds data persists exactly one Analysis row for
\* every location with a reading in the 168-hour window, all in one commit:
\* a step of the analyzer adds either all the rows of the run or, when the
\* commit fails, none, and no other step changes the Analysis table.
C24_AnalysisRowsTogether ==
    [][/\ (pc = "analyzer" /\ pc' # pc) =>
           LET added == Added(analyses, analyses')
           IN  /\ SubSeq(analyses', 1, Len(analyses)) = analyses
               /\ \/ pc' = "raised" /\ added = << >>
                  \/ /\ pc' = "END"
                     /\ Len(added) = Cardinality(AnalysedLocations)
                     /\ {added[k].location_name : k \in DOMAIN added}
                            = AnalysedLocations
       /\ pc # "analyzer" => analyses' = analyses]_vars

\* analyze has returned over readings of two locations and has persisted two
\* rows, one for each
C24_Witness ==
    /\ pc = "END"
    /\ visited = <<"supervisor", "analyzer">>
    /\ Cardinality(AnalysedLocations) = 2
    /\ Len(analyses) = 2
    /\ analyses[1].location_name # analyses[2].location_name

\* The hours of loc that collect_data takes from the source: the last 24 of
\* the hours it returned
CollectedHours(loc) ==
    {now - source[loc].len + i :
        i \in (source[loc].len - Min(source[loc].len, 24) + 1)..source[loc].len}

\* C25: when the source answers for a location without one pollutant's
\* series, collect_data still stores a reading for every collected hour of
\* that location, with the missing pollutant recorded as null.
C25_MissingSeriesTolerated ==
    [][(pc = "data_collector" /\ pc' # pc) =>
           /\ pc' = "END"
           /\ \A loc \in LocationNames :
                  source[loc].name = "no_pm25" =>
                      \A h \in CollectedHours(loc) :
                          \E i \in DOMAIN measurements' :
                              /\ measurements'[i].location_name = loc
                              /\ measurements'[i].timestamp = h
                              /\ measurements'[i].pm25 = None]_vars

\* C26: calculate_aqi maps each PM2.5 band into its AQI band: [0, 12.0] to
\* 0..50, (12.0, 35.4] to 51..100, (35.4, 55.4] to 101..150, (55.4, 150.4] to
\* 151..200, (150.4, 250.4] to 201..300 and above 250.4 to 301 or more.
C26_BandsIntoBands ==
    (state.data.tag = "aqi" /\ state.data.values[1] >= 0) =>
        LET pm == state.data.values[1]
            aqi == state.data.result
        IN  IF pm <= 120 THEN aqi \in 0..50
            ELSE IF pm <= 354 THEN aqi \in 51..100
            ELSE IF pm <= 554 THEN aqi \in 101..150
            ELSE IF pm <= 1504 THEN aqi \in 151..200
            ELSE IF pm <= 2504 THEN aqi \in 201..300
            ELSE aqi >= 301

\* C27: calculate_aqi treats a negative input as 0: for every pm25 < 0 the
\* result is 0.
C27_NegativeIsZero ==
    (state.data.tag = "aqi" /\ state.data.values[1] < 0) => state.data.result = 0

\* The stored readings whose timestamp lies in the window of the given
\* number of hours that ends at now
InWindow(hours) ==
    {i \in DOMAIN measurements :
        /\ measurements[i].timestamp >= now - hours
        /\ measurements[i].timestamp <= now}

\* C28: the engines use only readings with now - window <= timestamp <= now:
\* check_alerts raises alerts from the readings of the trailing hour only,
\* forecast counts and fits the readings of the trailing 48 hours only, and
\* analyze analyses the locations with a reading in the trailing 168 hours
\* only; a stored reading later than now is never used.
C28_WindowsEndAtNow ==
    [][/\ (pc = "alert_agent" /\ pc' = "END") =>
           LET added == Added(alerts, alerts')
           IN  \A k \in DOMAIN added :
                   \E i \in InWindow(AlertWindow) :
                       /\ measurements[i].location_name = added[k].location_name
                       /\ measurements[i].pm25 = Some(added[k].value)
       /\ (pc = "forecaster" /\ pc' = "END") =>
           (Cardinality(InWindow(ForecastWindow)) < 10 => forecasts' = forecasts)
       /\ (pc = "analyzer" /\ pc' = "END") =>
           LET added == Added(analyses, analyses')
           IN  \A k \in DOMAIN added :
                   \E i \in InWindow(AnalysisWindow) :
                       measurements[i].location_name = added[k].location_name]_vars

\* C29: through run_agent a task name outside {collect_data, analyze,
\* forecast, check_alerts} is rejected with an error before the router or any
\* engine runs: a request either starts one of the four tasks or is answered
\* with HTTP 400 while nothing runs and no table changes, and no other task
\* name is ever before the router.
C29_UnknownTaskRejected ==
    [][/\ requests' # requests =>
           \/ /\ pc' = "supervisor"
              /\ state'.task_type
                     \in {"collect_data", "analyze", "forecast", "check_alerts"}
           \/ /\ response' = HttpError(400)
              /\ pc' = "idle"
              /\ visited' = << >>
              /\ state' = state
              /\ tables' = tables
       /\ pc' # "idle" =>
           state'.task_type
               \in {"collect_data", "analyze", "forecast", "check_alerts"}]_vars

\* A request has been answered with HTTP 400 over a store that holds
\* readings; nothing is running
C29_Witness ==
    /\ response = HttpError(400)
    /\ pc = "idle"
    /\ requests = 2
    /\ measurements # << >>
    /\ state = IdleState

\* The PM2.5 values a location's stored readings carry, null ones left out
\* and 0 kept, in the order the engines read them
PresentValues(loc, hours) ==
    LET own == SelectSeq(get_recent_measurements(measurements, now, hours),
                   LAMBDA m : m.location_name = loc /\ m.pm25 # None)
    IN  [i \in DOMAIN own |-> own[i].pm25[1]]

\* C30: a PM2.5 of exactly 0 is a present value and a null PM2.5 is absent,
\* in every engine: the average analyze persists for a location is the mean
\* of its non-null readings, zeros included, and the forecast of a location
\* is fitted to its non-null readings only.
C30_ZeroPresentNullAbsent ==
    [][/\ (pc = "analyzer" /\ pc' = "END") =>
           LET added == Added(analyses, analyses')
           IN  \A k \in DOMAIN added :
                   LET y == PresentValues(added[k].location_name, AnalysisWindow)
                   IN  y # << >> =>
                           added[k].pm25_avg[1] * Len(y)
                               = SumSeq(y) * added[k].pm25_avg[2]
       /\ (pc = "forecaster" /\ pc' = "END") =>
           LET added == Added(forecasts, forecasts')
           IN  \A k \in DOMAIN added :
                   LET y == PresentValues(added[k].location_name, ForecastWindow)
                       fit == Clip(Predict(y, Len(y) + FutureSteps - 1),
                                   ClipLow, ClipHigh)
                   IN  /\ Len(y) >= 2
                       /\ added[k].predicted_pm25[1] * fit[2]
                              = fit[1] * added[k].predicted_pm25[2]]_vars

====
